---- MODULE Spec2Model ----
(***************************************************************************)
(* Model of deep_investor_agent:                                           *)
(*   src/src/agents/portfolio_manager.py  compute_allowed_actions,         *)
(*                                        generate_trading_decision        *)
(*   src/src/utils/llm.py                 call_llm (retry loop)            *)
(*   src/src/agents/technicals.py         the strategy generators, the     *)
(*                                        combiner, calculate_hurst_exponent,*)
(*                                        technical_analyst_agent          *)
(*   src/src/tools/api.py                 _make_api_request and            *)
(*                                        _make_api_request_with_fallback  *)
(*                                                                         *)
(* Money amounts are whole numbers.  margin_requirement is kept in         *)
(* hundredths (50 stands for 0.5), so equity / margin_requirement is       *)
(* (100 * equity) / margin_requirement.  A Python dict is a TLA+ function  *)
(* whose DOMAIN is the dict's key set.                                     *)
(***************************************************************************)
EXTENDS Integers, Sequences, FiniteSets, TLC

\* ---------------------------------------------------------------- bounds
\* largest risk-limit share count drawn for a ticker
MaxShares == 1
\* largest quantity the proposer puts in a decision
MaxQuantity == 2

\* ---------------------------------------------------------------- inputs
\* the tickers passed to generate_trading_decision
InputTickers == <<"A", "B">>
\* a ticker the caller never passed, which the proposer may still name
OtherTicker == "X"
AllTickers == {InputTickers[i] : i \in 1..Len(InputTickers)} \cup {OtherTicker}

Actions == {"buy", "sell", "short", "cover", "hold"}

\* dict.get(key, default)
Get(d, k, default) == IF k \in DOMAIN d THEN d[k] ELSE default

Max(a, b) == IF a >= b THEN a ELSE b
Min(a, b) == IF a <= b THEN a ELSE b

Range(s) == {s[i] : i \in 1..Len(s)}

\* ------------------------------------------------- compute_allowed_actions
\* margin_requirement default 0.5, in hundredths
DefaultMarginRequirement == 50

\* positions.get(ticker, {"long": 0, ..., "short": 0, ...})
DefaultPosition == [long |-> 0, short |-> 0]

\* int(available_margin // price) with
\* available_margin = max(0.0, equity / margin_requirement - margin_used)
MaxShortMargin(equity, margin_requirement, margin_used, price) ==
    LET num == 100 * equity - margin_used * margin_requirement
    IN  IF num <= 0 THEN 0 ELSE num \div (margin_requirement * price)

\* the actions dict of one ticker before pruning
TickerActions(ticker, current_prices, max_shares, portfolio) ==
    LET cash               == Get(portfolio, "cash", 0)
        positions          == Get(portfolio, "positions", <<>>)
        margin_requirement == Get(portfolio, "margin_requirement", DefaultMarginRequirement)
        margin_used        == Get(portfolio, "margin_used", 0)
        equity             == Get(portfolio, "equity", cash)
        price              == Get(current_prices, ticker, 0)
        pos                == Get(positions, ticker, DefaultPosition)
        long_shares        == Get(pos, "long", 0)
        short_shares       == Get(pos, "short", 0)
        max_qty            == Get(max_shares, ticker, 0)
        max_buy            == IF cash > 0 /\ price > 0
                              THEN Max(0, Min(max_qty, cash \div price))
                              ELSE 0
        max_short          == IF price > 0 /\ max_qty > 0
                              THEN IF margin_requirement <= 0
                                   THEN max_qty
                                   ELSE Max(0, Min(max_qty,
                                            MaxShortMargin(equity, margin_requirement,
                                                           margin_used, price)))
                              ELSE 0
    IN  [buy   |-> max_buy,
         sell  |-> IF long_shares > 0 THEN long_shares ELSE 0,
         short |-> max_short,
         cover |-> IF short_shares > 0 THEN short_shares ELSE 0,
         hold  |-> 0]

\* pruned = {"hold": 0} plus every other action of positive capacity
Pruned(actions) ==
    [k \in {"hold"} \cup {a \in DOMAIN actions : a # "hold" /\ actions[a] > 0}
        |-> IF k = "hold" THEN 0 ELSE actions[k]]

\* compute_allowed_actions with the buy capacity taken from cash alone
compute_allowed_actions_BuyFromCashOnly(tickers, current_prices, max_shares, portfolio) ==
    [t \in Range(tickers) |->
        Pruned([TickerActions(t, current_prices, max_shares, portfolio) EXCEPT
            !.buy = IF Get(portfolio, "cash", 0) > 0 /\ Get(current_prices, t, 0) > 0
                    THEN Get(portfolio, "cash", 0) \div Get(current_prices, t, 0)
                    ELSE 0])]

\* compute_allowed_actions with the short capacity capped by max_qty alone
compute_allowed_actions_ShortIgnoresMargin(tickers, current_prices, max_shares, portfolio) ==
    [t \in Range(tickers) |->
        Pruned([TickerActions(t, current_prices, max_shares, portfolio) EXCEPT
            !.short = IF Get(current_prices, t, 0) > 0 /\ Get(max_shares, t, 0) > 0
                      THEN Get(max_shares, t, 0)
                      ELSE 0])]

\* compute_allowed_actions with the buy capacity capped by cash only when
\* the risk limit is positive
compute_allowed_actions_BuyKeepsRiskLimit(tickers, current_prices, max_shares, portfolio) ==
    [t \in Range(tickers) |->
        Pruned([TickerActions(t, current_prices, max_shares, portfolio) EXCEPT
            !.buy = IF Get(portfolio, "cash", 0) > 0 /\ Get(current_prices, t, 0) > 0
                    THEN Max(0, Get(max_shares, t, 0))
                    ELSE 0])]

\* compute_allowed_actions with sell offered only for a priced ticker
compute_allowed_actions_SellNeedsPrice(tickers, current_prices, max_shares, portfolio) ==
    [t \in Range(tickers) |->
        Pruned([TickerActions(t, current_prices, max_shares, portfolio) EXCEPT
            !.sell = IF Get(current_prices, t, 0) > 0 THEN @ ELSE 0])]

\* compute_allowed_actions without the pruning of zero capacities
compute_allowed_actions_Unpruned(tickers, current_prices, max_shares, portfolio) ==
    [t \in Range(tickers) |->
        TickerActions(t, current_prices, max_shares, portfolio)]

compute_allowed_actions(tickers, current_prices, max_shares, portfolio) ==
    [t \in Range(tickers) |->
        Pruned(TickerActions(t, current_prices, max_shares, portfolio))]

\* the portfolio after a call that stores the default position of every
\* ticker it does not find (positions.setdefault instead of positions.get)
PortfolioAfterCall_SetDefault(tickers, portfolio) ==
    LET positions == Get(portfolio, "positions", <<>>)
        filled    == [t \in DOMAIN positions \cup Range(tickers) |->
                         Get(positions, t, DefaultPosition)]
    IN  [k \in DOMAIN portfolio \cup {"positions"} |->
            IF k = "positions" THEN filled ELSE portfolio[k]]

\* the portfolio argument after the call: compute_allowed_actions reads it
\* with dict.get only and assigns to none of its keys
PortfolioAfterCall(tickers, portfolio) == portfolio

\* ------------------------------------------------------- PortfolioDecision
\* reasoning strings; the override message is an f-string over the neutral
\* count and the original action, kept as the fields count and original
Text(msg) == [msg |-> msg, count |-> 0, original |-> ""]
NoValidTrade == Text("No valid trade available")
DefaultHold  == Text("Default decision: hold")
LLMReasoning == Text("proposed by the LLM")
OverrideReasoning_NamesNewAction(neutral_count, action) ==
    [msg |-> "All {neutral_count} analyst(s) are NEUTRAL. Following rule: NEUTRAL signals -> HOLD. Original decision was {action}, but corrected to HOLD per system rules.",
     count |-> neutral_count, original |-> "hold"]

OverrideReasoning(neutral_count, action) ==
    [msg |-> "All {neutral_count} analyst(s) are NEUTRAL. Following rule: NEUTRAL signals -> HOLD. Original decision was {action}, but corrected to HOLD per system rules.",
     count |-> neutral_count, original |-> action]

PortfolioDecision(action, quantity, confidence, reasoning) ==
    [action |-> action, quantity |-> quantity,
     confidence |-> confidence, reasoning |-> reasoning]

PrefilledDecision == PortfolioDecision("hold", 0, 100, NoValidTrade)
DefaultDecision   == PortfolioDecision("hold", 0, 0, DefaultHold)

\* d1 updated with d2 (dict.update)
Update(d1, d2) ==
    [k \in DOMAIN d1 \cup DOMAIN d2 |-> IF k \in DOMAIN d2 THEN d2[k] ELSE d1[k]]

EmptyDict == [k \in {} |-> 0]

\* ------------------------------------------------ generate_trading_decision
\* the tickers whose allowed-action set has the single key hold
OnlyHold(aa) == DOMAIN aa = {"hold"}

\* tickers_for_llm without the pure-hold test: every ticker is sent
TickersForLLM_SendAll(tickers, allowed) == tickers

\* tickers_for_llm: the tickers, in order, that are not pure holds
RECURSIVE TickersForLLM(_, _)
TickersForLLM(tickers, allowed) ==
    IF tickers = <<>> THEN <<>>
    ELSE LET t  == Head(tickers)
             aa == Get(allowed, t, [hold |-> 0])
         IN  IF OnlyHold(aa)
             THEN TickersForLLM(Tail(tickers), allowed)
             ELSE <<t>> \o TickersForLLM(Tail(tickers), allowed)

\* prefilled_decisions: a hold for every pure-hold ticker
Prefilled(tickers, allowed) ==
    [t \in {u \in Range(tickers) : OnlyHold(Get(allowed, u, [hold |-> 0]))}
        |-> PrefilledDecision]

\* sig = payload.get("sig") or payload.get("signal"); "" stands for None
SigOf(payload) ==
    LET s1 == Get(payload, "sig", "")
    IN  IF s1 # "" THEN s1 ELSE Get(payload, "signal", "")

\* _compact_signals: per ticker, {agent: {sig, conf}} of the agents that have both
CompactSignals(signals) ==
    [t \in DOMAIN signals |->
        [a \in {b \in DOMAIN signals[t] :
                    /\ SigOf(signals[t][b]) # ""
                    /\ ("conf" \in DOMAIN signals[t][b] \/ "confidence" \in DOMAIN signals[t][b])}
            |-> [sig  |-> SigOf(signals[t][a]),
                 conf |-> Get(signals[t][a], "conf", Get(signals[t][a], "confidence", 0))]]]

\* the three payloads of the prompt, built for tickers_for_llm only
PromptData(for_llm, signals, allowed, portfolio) ==
    LET positions == Get(portfolio, "positions", EmptyDict)
    IN  [signals   |-> CompactSignals([t \in Range(for_llm) |-> Get(signals, t, EmptyDict)]),
         positions |-> [t \in Range(for_llm) |->
                          [long  |-> Get(Get(positions, t, DefaultPosition), "long", 0),
                           short |-> Get(Get(positions, t, DefaultPosition), "short", 0)]],
         allowed   |-> [t \in Range(for_llm) |-> allowed[t]]]

\* create_default_portfolio_output
\* create_default_portfolio_output without the loop over tickers_for_llm
create_default_portfolio_output_PrefilledOnly(prefilled, for_llm) == prefilled

create_default_portfolio_output(prefilled, for_llm) ==
    Update(prefilled, [t \in Range(for_llm) |-> DefaultDecision])

\* str.lower on the signal strings
Lower(s) ==
    CASE s = "NEUTRAL" -> "neutral"
      [] s = "Bullish" -> "bullish"
      [] s = "BEARISH" -> "bearish"
      [] OTHER -> s

\* the agents of one ticker whose lower-cased signal is kind
SignalCount(ticker_signals, kind) ==
    Cardinality({a \in DOMAIN ticker_signals :
        LET sig == SigOf(ticker_signals[a])
        IN  sig # "" /\ Lower(sig) = kind})

\* the condition of the override: every counted signal is neutral
\* the test of the override without the bullish and bearish counts
AllNeutral_AnyNeutral(ticker_signals) ==
    SignalCount(ticker_signals, "neutral") > 0

AllNeutral(ticker_signals) ==
    LET bullish_count == SignalCount(ticker_signals, "bullish")
        bearish_count == SignalCount(ticker_signals, "bearish")
        neutral_count == SignalCount(ticker_signals, "neutral")
        total_signals == bullish_count + bearish_count + neutral_count
    IN  /\ total_signals > 0
        /\ neutral_count = total_signals
        /\ bullish_count = 0
        /\ bearish_count = 0

\* one iteration of the post-processing loop, for one ticker
OverrideTicker(m, ticker, signals) ==
    LET ticker_signals == Get(signals, ticker, EmptyDict)
    IN  IF ticker \notin DOMAIN m THEN m
        ELSE IF DOMAIN ticker_signals = {} THEN m
        ELSE IF AllNeutral(ticker_signals) /\ m[ticker].action # "hold"
             THEN [m EXCEPT ![ticker] =
                      PortfolioDecision("hold", 0, m[ticker].confidence,
                          OverrideReasoning(SignalCount(ticker_signals, "neutral"),
                                            m[ticker].action))]
             ELSE m

\* ------------------------------------------------------------ call_llm
\* max_retries: int = 3
max_retries == 3

\* ------------------------------------------------------------- the inputs
Prices == {100}
Cashes == {0, 150}
HeldPositions == {[long |-> 1, short |-> 0], [long |-> 0, short |-> 1]}
\* positions: a position for some of the tickers
PositionMaps ==
    UNION {[S -> HeldPositions] : S \in SUBSET Range(InputTickers)}
Portfolios ==
    {[cash |-> c, positions |-> p] : c \in Cashes, p \in PositionMaps}

Signal(s) == [sig |-> s, conf |-> 50]
\* the analyst signals of one ticker: none, all neutral, neutral and bullish
SignalProfiles ==
    { EmptyDict,
      [a \in {"analyst1", "analyst2"} |->
          IF a = "analyst1" THEN Signal("neutral") ELSE Signal("NEUTRAL")],
      [a \in {"analyst1", "analyst2"} |->
          IF a = "analyst1" THEN Signal("neutral") ELSE Signal("bullish")] }

\* what the proposer may answer for one ticker: an action that may or may
\* not be allowed, with a quantity that may or may not fit
ProposedActions == {"hold", "buy"}
Proposals ==
    {PortfolioDecision(a, q, 50, LLMReasoning) :
        a \in ProposedActions, q \in 0..MaxQuantity}
\* a parsed PortfolioManagerOutput.decisions: proposals for any of the input
\* tickers, with or without an entry for OtherTicker
Answers ==
    LET known == UNION {[S -> Proposals] : S \in SUBSET Range(InputTickers)}
        other == [t \in {OtherTicker} |-> PortfolioDecision("buy", 1, 50, LLMReasoning)]
    IN  known \cup {Update(d, other) : d \in known}

\* -------------------------------------------------------------- the state
VARIABLES
    current_prices,       \* argument current_prices
    max_shares,           \* argument max_shares
    portfolio,            \* argument portfolio
    signals_by_ticker,    \* argument signals_by_ticker
    pc,                   \* position in generate_trading_decision
    prefilled_decisions,  \* local prefilled_decisions
    tickers_for_llm,      \* local tickers_for_llm
    prompt_data,          \* local prompt_data, the payload of the prompt
    attempt,              \* call_llm's loop variable
    llm_calls,            \* number of invocations of the model
    llm_out,              \* llm_out.decisions
    merged,               \* local merged
    idx,                  \* position of the post-processing loop in tickers_for_llm
    result                \* the decisions of the returned PortfolioManagerOutput

inputs == <<current_prices, max_shares, portfolio, signals_by_ticker>>

\* the state of the calls made outside generate_trading_decision
VARIABLES
    tickers,              \* argument tickers of compute_allowed_actions
    allowed,              \* the map compute_allowed_actions returned
    signals,              \* argument signals of weighted_signal_combination
    weights,              \* argument weights of weighted_signal_combination
    final_score,          \* local final_score of weighted_signal_combination
    combined,             \* the dict weighted_signal_combination returned
    indicators,           \* the latest-bar values the strategy generators read
    strategy_signals,     \* strategy name -> the dict its generator returned
    frame,                \* prices_df: column name -> the function that wrote it
    reads,                \* strategy name -> the columns of prices_df it read, as it saw them
    price_series,         \* argument price_series of calculate_hurst_exponent
    labelled,             \* price_series is an index-labelled pandas Series
    hurst,                \* the value calculate_hurst_exponent returned
    analyst_tickers,      \* data["tickers"] of technical_analyst_agent
    price_data,           \* ticker -> latest-bar values of its prices, if it has any
    technical_analysis,   \* the dict technical_analyst_agent builds
    ticker_pos,           \* position of its loop in analyst_tickers
    api_keys,             \* [primary_key, backup_key] of _make_api_request_with_fallback
    key_pos,              \* position of its loop in api_keys
    api_attempt,          \* loop variable attempt of _make_api_request
    requests_made,        \* HTTP requests sent by the running _make_api_request
    delays,               \* the time.sleep arguments of the running _make_api_request
    response,             \* status of the latest HTTP response, or the exception raised
    key_outcomes,         \* per key tried: how its _make_api_request ended
    last_error,           \* local last_error of _make_api_request_with_fallback
    api_result            \* how _make_api_request_with_fallback ended

solver == <<tickers, allowed>>
combiner == <<signals, weights, final_score, combined>>
strategist == <<indicators, strategy_signals, frame, reads>>
regression == <<price_series, labelled, hurst>>
technicals == <<strategist, regression>>
analyst == <<analyst_tickers, price_data, technical_analysis, ticker_pos>>
api == <<api_keys, key_pos, api_attempt, requests_made, delays, response,
         key_outcomes, last_error, api_result>>
services == <<analyst, api>>
others == <<solver, combiner, technicals, services>>

\* compute_allowed_actions is not running on its own
SolverIdle ==
    /\ tickers = <<>>
    /\ allowed = EmptyDict

\* weighted_signal_combination is not running
CombinerIdle ==
    /\ signals = EmptyDict
    /\ weights = EmptyDict
    /\ final_score = EmptyDict
    /\ combined = EmptyDict

\* no strategy generator is running
StrategistIdle ==
    /\ indicators = EmptyDict
    /\ strategy_signals = EmptyDict
    /\ frame = EmptyDict
    /\ reads = EmptyDict

\* calculate_hurst_exponent is not running on its own
RegressionIdle ==
    /\ price_series = <<>>
    /\ labelled = FALSE
    /\ hurst = EmptyDict

TechnicalsIdle ==
    /\ StrategistIdle
    /\ RegressionIdle

\* technical_analyst_agent is not running
AnalystIdle ==
    /\ analyst_tickers = <<>>
    /\ price_data = EmptyDict
    /\ technical_analysis = EmptyDict
    /\ ticker_pos = 0

\* no response yet: response = None
NoResponse == [status |-> 0, error |-> "none"]

\* no API request is under way
ApiIdle ==
    /\ api_keys = <<>>
    /\ key_pos = 0
    /\ api_attempt = 0
    /\ requests_made = 0
    /\ delays = <<>>
    /\ response = NoResponse
    /\ key_outcomes = <<>>
    /\ last_error = "none"
    /\ api_result = "none"

ServicesIdle ==
    /\ AnalystIdle
    /\ ApiIdle

\* no call outside generate_trading_decision is under way
OthersIdle ==
    /\ SolverIdle
    /\ CombinerIdle
    /\ TechnicalsIdle
    /\ ServicesIdle

vars == <<current_prices, max_shares, portfolio, signals_by_ticker, pc,
          prefilled_decisions, tickers_for_llm, prompt_data, attempt,
          llm_calls, llm_out, merged, idx, result, others>>

\* allowed_actions_full of the call
AllowedActionsFull ==
    compute_allowed_actions(InputTickers, current_prices, max_shares, portfolio)

Init ==
    /\ current_prices \in [Range(InputTickers) -> Prices]
    /\ max_shares \in [Range(InputTickers) -> 0..MaxShares]
    /\ portfolio \in Portfolios
    /\ signals_by_ticker \in [Range(InputTickers) -> SignalProfiles]
    /\ pc = "start"
    /\ prefilled_decisions = EmptyDict
    /\ tickers_for_llm = <<>>
    /\ prompt_data = EmptyDict
    /\ attempt = 0
    /\ llm_calls = 0
    /\ llm_out = EmptyDict
    /\ merged = EmptyDict
    /\ idx = 0
    /\ result = EmptyDict
    /\ OthersIdle

\* lines 189-206: constraints, prefill, and the early return when no ticker
\* is left for the LLM
ReturnPrefilled ==
    /\ pc = "start"
    /\ TickersForLLM(InputTickers, AllowedActionsFull) = <<>>
    /\ prefilled_decisions' = Prefilled(InputTickers, AllowedActionsFull)
    /\ result' = prefilled_decisions'
    /\ pc' = "done"
    /\ UNCHANGED <<others, inputs, tickers_for_llm, prompt_data, attempt, llm_calls,
                   llm_out, merged, idx>>

\* lines 189-316: constraints, prefill, and the prompt for the other tickers
BuildPrompt ==
    /\ pc = "start"
    /\ TickersForLLM(InputTickers, AllowedActionsFull) # <<>>
    /\ prefilled_decisions' = Prefilled(InputTickers, AllowedActionsFull)
    /\ tickers_for_llm' = TickersForLLM(InputTickers, AllowedActionsFull)
    /\ prompt_data' = PromptData(tickers_for_llm', signals_by_ticker,
                                 AllowedActionsFull, portfolio)
    /\ attempt' = 0
    /\ pc' = "call_llm"
    /\ UNCHANGED <<others, inputs, llm_calls, llm_out, merged, idx, result>>

\* lines 336-338: merged = dict(prefilled_decisions); merged.update(llm_out.decisions)
Merge(out) ==
    /\ llm_out' = out
    /\ merged' = Update(prefilled_decisions, out)
    /\ idx' = 1
    /\ pc' = "post_process"

\* call_llm: an attempt returns a parsed PortfolioManagerOutput
LLMAnswers ==
    /\ pc = "call_llm"
    /\ \E out \in Answers :
        /\ llm_calls' = llm_calls + 1
        /\ Merge(out)
    /\ UNCHANGED <<others, inputs, prefilled_decisions, tickers_for_llm, prompt_data,
                   attempt, result>>

\* call_llm: an attempt raises or cannot be parsed, and another follows
LLMRetry ==
    /\ pc = "call_llm"
    /\ attempt < max_retries - 1
    /\ llm_calls' = llm_calls + 1
    /\ attempt' = attempt + 1
    /\ UNCHANGED <<others, inputs, pc, prefilled_decisions, tickers_for_llm, prompt_data,
                   llm_out, merged, idx, result>>

\* call_llm: the last attempt fails and default_factory() is returned
LLMGivesUp ==
    /\ pc = "call_llm"
    /\ attempt = max_retries - 1
    /\ llm_calls' = llm_calls + 1
    /\ Merge(create_default_portfolio_output(prefilled_decisions, tickers_for_llm))
    /\ UNCHANGED <<others, inputs, prefilled_decisions, tickers_for_llm, prompt_data,
                   attempt, result>>

\* lines 342-379: one iteration of the loop over tickers_for_llm
PostProcess ==
    /\ pc = "post_process"
    /\ idx <= Len(tickers_for_llm)
    /\ merged' = OverrideTicker(merged, tickers_for_llm[idx], signals_by_ticker)
    /\ idx' = idx + 1
    /\ UNCHANGED <<others, inputs, pc, prefilled_decisions, tickers_for_llm, prompt_data,
                   attempt, llm_calls, llm_out, result>>

\* line 381: return PortfolioManagerOutput(decisions=merged)
Return ==
    /\ pc = "post_process"
    /\ idx > Len(tickers_for_llm)
    /\ result' = merged
    /\ pc' = "done"
    /\ UNCHANGED <<others, inputs, prefilled_decisions, tickers_for_llm, prompt_data,
                   attempt, llm_calls, llm_out, merged, idx>>

Next ==
    \/ ReturnPrefilled
    \/ BuildPrompt
    \/ LLMAnswers
    \/ LLMRetry
    \/ LLMGivesUp
    \/ PostProcess
    \/ Return

Spec == Init /\ [][Next]_vars

\* ------------------------------------------------------------ properties
Returned == pc = "done"

\* the capacity compute_allowed_actions gives an action; a pruned action has none
Capacity(t, action) == Get(AllowedActionsFull[t], action, 0)

\* C1: in the returned map, the quantity of every input ticker's decision is
\* at most the capacity compute_allowed_actions gives its action.
C1_QuantityWithinAllowed ==
    Returned =>
        \A t \in DOMAIN result \cap Range(InputTickers) :
            result[t].quantity <= Capacity(t, result[t].action)

\* C2: a ticker whose signals are all neutral is returned with action hold
\* and quantity 0, whatever was proposed for it.
C2_AllNeutralHoldsZero ==
    Returned =>
        \A t \in DOMAIN result \cap Range(InputTickers) :
            AllNeutral(signals_by_ticker[t]) =>
                result[t].action = "hold" /\ result[t].quantity = 0

\* C3: a proposal for a ticker sent to the proposer whose action is not
\* allowed or whose quantity exceeds the allowed maximum is replaced by the
\* default hold decision.
C3_InvalidProposalReplaced ==
    Returned =>
        \A t \in Range(tickers_for_llm) :
            ( /\ t \in DOMAIN llm_out
              /\ \/ llm_out[t].action \notin DOMAIN AllowedActionsFull[t]
                 \/ llm_out[t].quantity > Capacity(t, llm_out[t].action) )
            => (t \in DOMAIN result /\ result[t] = DefaultDecision)

\* C4: the returned map has a decision for every input ticker, and a ticker
\* sent to the proposer that the answer leaves out gets the default hold.
C4_EveryTickerDecided ==
    Returned =>
        \A t \in Range(InputTickers) :
            /\ t \in DOMAIN result
            /\ (t \in Range(tickers_for_llm) /\ t \notin DOMAIN llm_out)
                   => result[t] = DefaultDecision

\* C5: every key of the returned map is one of the input tickers.
C5_OnlyInputTickers ==
    Returned => DOMAIN result \subseteq Range(InputTickers)

\* C6: a ticker whose allowed-action set contains only hold is returned with
\* the prefilled decision {hold, 0, 100, "No valid trade available"}.
C6_PureHoldPrefilled ==
    Returned =>
        \A t \in Range(InputTickers) :
            OnlyHold(AllowedActionsFull[t]) =>
                (t \in DOMAIN result /\ result[t] = PrefilledDecision)

\* C7: a ticker whose allowed-action set contains only hold is in none of the
\* three payloads of the prompt, and when every input ticker is such a ticker
\* the model is never invoked.
C7_PureHoldNeverSent ==
    /\ \A t \in Range(InputTickers) :
           OnlyHold(AllowedActionsFull[t]) =>
               \A part \in DOMAIN prompt_data : t \notin DOMAIN prompt_data[part]
    /\ (\A t \in Range(InputTickers) : OnlyHold(AllowedActionsFull[t]))
           => (llm_calls = 0 /\ pc \in {"start", "done"})

\* C7 witness: the model has been invoked with a prompt about one ticker
\* while another input ticker is a pure hold.
C7_Witness ==
    /\ llm_calls > 0
    /\ DOMAIN prompt_data = {"signals", "positions", "allowed"}
    /\ \E t, u \in Range(InputTickers) :
           /\ OnlyHold(AllowedActionsFull[t])
           /\ u \in DOMAIN prompt_data.allowed
           /\ u \in DOMAIN prompt_data.signals
           /\ u \in DOMAIN prompt_data.positions

\* C8: every returned decision whose action is hold has quantity 0.
C8_HoldHasZeroQuantity ==
    Returned =>
        \A t \in DOMAIN result :
            result[t].action = "hold" => result[t].quantity = 0

\* the post-processing loop has gone past ticker t
Processed(t) ==
    /\ pc = "post_process"
    /\ \E i \in 1..Len(tickers_for_llm) : i < idx /\ tickers_for_llm[i] = t

\* the override applies to t: all its signals are neutral and the proposer
\* answered a non-hold action for it
OverrideApplies(t) ==
    /\ t \in Range(tickers_for_llm)
    /\ t \in DOMAIN llm_out
    /\ llm_out[t].action # "hold"
    /\ AllNeutral(signals_by_ticker[t])

\* the decision the override writes for t
OverrideDecision(t) ==
    PortfolioDecision("hold", 0, llm_out[t].confidence,
        OverrideReasoning(SignalCount(signals_by_ticker[t], "neutral"),
                          llm_out[t].action))

\* C9: when the override replaces a proposed non-hold decision, the returned
\* decision carries the override message naming the original action and not
\* the proposed reasoning; once the loop has gone past a ticker no later step
\* changes its decision, and what is returned is the map the loop left.
C9_OverrideRecordedAndLast ==
    /\ [](\A t \in Range(InputTickers) :
             (OverrideApplies(t) /\ (Processed(t) \/ Returned)) =>
                 LET d == IF Returned THEN result[t] ELSE merged[t]
                 IN  /\ d = OverrideDecision(t)
                     /\ d.reasoning.original = llm_out[t].action
                     /\ d.reasoning # llm_out[t].reasoning)
    /\ [][ /\ \A t \in DOMAIN merged :
                Processed(t) => (t \in DOMAIN merged' /\ merged'[t] = merged[t])
           /\ (pc = "post_process" /\ pc' = "done") => result' = merged
         ]_vars

\* C9 witness: the call has returned and the override replaced a proposed buy.
C9_Witness ==
    /\ Returned
    /\ \E t \in Range(InputTickers) :
           /\ OverrideApplies(t)
           /\ llm_out[t].action = "buy"
           /\ llm_out[t].quantity > 0
           /\ result[t].action = "hold"
           /\ result[t].reasoning.original = "buy"

\* ================================================ compute_allowed_actions
\* a call of compute_allowed_actions on its own, on inputs drawn from:
MaxHeld == 1
SolverTickers == {"AAPL", "MSFT"}
SolverTickerLists == {<<"AAPL">>, <<"AAPL", "MSFT">>}
SolverPrices == {0, 100}
SolverMaxShares == {-1, 0, 50}
SolverCashes == {0, 250, 10000}
SolverMarginRequirements == {0, 50}
SolverMarginUsed == {300}
SolverEquities == {400}
SolverPositionMaps ==
    UNION {[S -> [long : 0..MaxHeld, short : 0..MaxHeld]] : S \in SUBSET SolverTickers}
\* a portfolio always has cash and positions here and any of the other keys
SolverPortfolios ==
    LET full == [cash : SolverCashes, positions : SolverPositionMaps,
                 margin_requirement : SolverMarginRequirements,
                 margin_used : SolverMarginUsed, equity : SolverEquities]
        keys == {{"cash", "positions"} \cup K :
                    K \in SUBSET {"margin_requirement", "margin_used", "equity"}}
    IN  {[k \in K |-> f[k]] : f \in full, K \in keys}

\* generate_trading_decision is not running
ReconcilerIdle ==
    /\ signals_by_ticker = EmptyDict
    /\ prefilled_decisions = EmptyDict
    /\ tickers_for_llm = <<>>
    /\ prompt_data = EmptyDict
    /\ attempt = 0
    /\ llm_calls = 0
    /\ llm_out = EmptyDict
    /\ merged = EmptyDict
    /\ idx = 0
    /\ result = EmptyDict

reconciler == <<signals_by_ticker, prefilled_decisions, tickers_for_llm,
                prompt_data, attempt, llm_calls, llm_out, merged, idx, result>>

SolverInit ==
    /\ tickers \in SolverTickerLists
    /\ current_prices \in [SolverTickers -> SolverPrices]
    /\ max_shares \in [SolverTickers -> SolverMaxShares]
    /\ portfolio \in SolverPortfolios
    /\ allowed = EmptyDict
    /\ pc = "solver_start"
    /\ ReconcilerIdle
    /\ CombinerIdle
    /\ TechnicalsIdle
    /\ ServicesIdle

\* lines 97-158: the whole call
SolverCall ==
    /\ pc = "solver_start"
    /\ allowed' = compute_allowed_actions(tickers, current_prices, max_shares, portfolio)
    /\ portfolio' = PortfolioAfterCall(tickers, portfolio)
    /\ pc' = "solver_done"
    /\ UNCHANGED <<tickers, current_prices, max_shares, reconciler, combiner, technicals,
                   services>>

SolverNext == SolverCall

SolverSpec == SolverInit /\ [][SolverNext]_vars

Solved == pc = "solver_done"

\* the capacity the returned map gives an action of a ticker
Returns(t, action) == Get(allowed[t], action, 0)

\* the inputs of Scenario B
ScenarioB ==
    /\ "AAPL" \in Range(tickers)
    /\ portfolio = [cash |-> 10000,
                    positions |-> [t \in {"AAPL"} |-> [long |-> 0, short |-> 0]]]
    /\ current_prices["AAPL"] = 100
    /\ max_shares["AAPL"] = 50

\* C11 as stated: on the inputs of Scenario B the map returned for AAPL is
\* exactly {hold: 0, buy: 50}.
C11_ScenarioB_BuyOnly ==
    (Solved /\ ScenarioB) => allowed["AAPL"] = [hold |-> 0, buy |-> 50]

\* C11 amended: on the inputs of Scenario B the map returned for AAPL is
\* exactly {hold: 0, buy: 50, short: 50}.
C11_ScenarioB_BuyAndShort ==
    (Solved /\ ScenarioB) =>
        allowed["AAPL"] = [hold |-> 0, buy |-> 50, short |-> 50]

\* C11 witness: the call on the inputs of Scenario B has returned.
C11_Witness ==
    Solved /\ ScenarioB /\ DOMAIN allowed["AAPL"] = {"hold", "buy", "short"}

\* the inputs of the call as compute_allowed_actions reads them
InCash       == Get(portfolio, "cash", 0)
InMarginReq  == Get(portfolio, "margin_requirement", DefaultMarginRequirement)
InMarginUsed == Get(portfolio, "margin_used", 0)
InEquity     == Get(portfolio, "equity", InCash)
InPrice(t)   == Get(current_prices, t, 0)
InMaxQty(t)  == Get(max_shares, t, 0)
InLong(t)    == Get(Get(Get(portfolio, "positions", EmptyDict), t, DefaultPosition), "long", 0)
InShort(t)   == Get(Get(Get(portfolio, "positions", EmptyDict), t, DefaultPosition), "short", 0)

\* floor(max(0, equity / margin_requirement - margin_used) / price), for a
\* positive margin requirement (in hundredths) and a positive price
MarginShares(t) ==
    LET num == 100 * InEquity - InMarginUsed * InMarginReq
    IN  IF num <= 0 THEN 0 ELSE num \div (InMarginReq * InPrice(t))

\* C12 as stated: the short capacity is the risk-limit max shares when
\* margin_requirement <= 0 and min(max shares, margin shares) otherwise.
C12_ShortCapacityAsStated ==
    Solved =>
        \A t \in Range(tickers) :
            /\ InMarginReq <= 0 => Returns(t, "short") = InMaxQty(t)
            /\ (InMarginReq > 0 /\ InPrice(t) > 0) =>
                   Returns(t, "short") = Min(InMaxQty(t), MarginShares(t))

\* C12 amended: for a positive price and a positive risk limit the short
\* capacity is the risk-limit max shares when margin_requirement <= 0,
\* whatever equity and margin_used are, and min(max shares, margin shares)
\* otherwise; for a price <= 0 or a risk limit <= 0 it is 0.
C12_ShortCapacity ==
    Solved =>
        \A t \in Range(tickers) :
            Returns(t, "short") =
                IF InPrice(t) <= 0 \/ InMaxQty(t) <= 0 THEN 0
                ELSE IF InMarginReq <= 0 THEN InMaxQty(t)
                ELSE Min(InMaxQty(t), MarginShares(t))

\* C12 witness: a priced ticker whose short capacity the margin decides.
C12_Witness ==
    /\ Solved
    /\ "margin_requirement" \in DOMAIN portfolio
    /\ "margin_used" \in DOMAIN portfolio
    /\ "equity" \in DOMAIN portfolio
    /\ InMarginReq > 0
    /\ \E t \in Range(tickers) :
           /\ InPrice(t) > 0
           /\ Returns(t, "short") > 0
           /\ Returns(t, "short") < InMaxQty(t)

\* C13: the buy capacity is min(max shares, floor(cash / price)) clamped at
\* 0, and is 0, with buy omitted, whenever price <= 0 or cash <= 0.
C13_BuyCapacity ==
    Solved =>
        \A t \in Range(tickers) :
            LET expected == IF InPrice(t) <= 0 \/ InCash <= 0 THEN 0
                            ELSE Max(0, Min(InMaxQty(t), InCash \div InPrice(t)))
            IN  /\ Returns(t, "buy") = expected
                /\ ("buy" \in DOMAIN allowed[t]) <=> (expected > 0)

\* C13 witness: a ticker whose buy capacity the cash decides.
C13_Witness ==
    /\ Solved
    /\ \E t \in Range(tickers) :
           /\ "buy" \in DOMAIN allowed[t]
           /\ allowed[t].buy = InCash \div InPrice(t)
           /\ allowed[t].buy < InMaxQty(t)

\* C14: the sell capacity is the long share count and the cover capacity the
\* short share count, whatever price, cash, margin and risk limit are.
C14_SellAndCoverCapacity ==
    Solved =>
        \A t \in Range(tickers) :
            /\ Returns(t, "sell") = InLong(t)
            /\ Returns(t, "cover") = InShort(t)

\* C14 witness: a held ticker with price 0 and no risk limit left.
C14_Witness ==
    /\ Solved
    /\ \E t \in Range(tickers) :
           /\ InPrice(t) = 0
           /\ InMaxQty(t) <= 0
           /\ InLong(t) > 0
           /\ InShort(t) > 0
           /\ allowed[t] = [hold |-> 0, sell |-> InLong(t), cover |-> InShort(t)]

\* C15: the returned map has exactly the input tickers as keys; each action
\* map has hold with value 0 and every other action in it is one of buy,
\* sell, short, cover with a strictly positive value.
C15_KeysAndPositiveCapacities ==
    Solved =>
        /\ DOMAIN allowed = Range(tickers)
        /\ \A t \in DOMAIN allowed :
               /\ "hold" \in DOMAIN allowed[t]
               /\ allowed[t]["hold"] = 0
               /\ \A a \in DOMAIN allowed[t] \ {"hold"} :
                      a \in Actions /\ allowed[t][a] > 0

\* C15 witness: a call for one of the two priced tickers that keeps one
\* action and omits the others.
C15_Witness ==
    /\ Solved
    /\ tickers = <<"AAPL">>
    /\ DOMAIN allowed = {"AAPL"}
    /\ DOMAIN allowed["AAPL"] = {"hold", "sell"}

\* C16: the call leaves every key of its portfolio argument as it was.
C16_PortfolioUnchanged ==
    [][(pc = "solver_start" /\ pc' = "solver_done") => portfolio' = portfolio]_vars

\* C16 witness: the call has returned for a ticker that has no entry in
\* positions.
C16_Witness ==
    /\ Solved
    /\ \E t \in Range(tickers) : t \notin DOMAIN portfolio.positions

\* ============================================ weighted_signal_combination
\* src/src/agents/technicals.py.  Weights and confidences are kept in
\* hundredths (25 stands for 0.25).  A score is the fraction num / den
\* moved by ulp roundings of the floating-point arithmetic (ulp in -1..1):
\* the sums and the division are rounded, so an exact 1/5 may come out one
\* rounding above or below it.
Strategies == {"trend", "mean_reversion", "momentum", "volatility", "stat_arb"}

\* strategy_weights of technical_analyst_agent
strategy_weights ==
    [trend |-> 25, mean_reversion |-> 20, momentum |-> 25,
     volatility |-> 15, stat_arb |-> 15]

\* signal_values = {"bullish": 1, "neutral": 0, "bearish": -1}
signal_values == [bullish |-> 1, neutral |-> 0, bearish |-> -1]

RECURSIVE SumOver(_, _)
SumOver(S, f) ==
    IF S = {} THEN 0
    ELSE LET k == CHOOSE x \in S : TRUE
         IN  f[k] + SumOver(S \ {k}, f)

\* weighted_sum after the loop
WeightedSum(sigs, wts) ==
    SumOver(DOMAIN sigs,
        [k \in DOMAIN sigs |->
            signal_values[sigs[k]["signal"]] * wts[k] * sigs[k]["confidence"]])

\* total_confidence after the loop
TotalConfidence(sigs, wts) ==
    SumOver(DOMAIN sigs, [k \in DOMAIN sigs |-> wts[k] * sigs[k]["confidence"]])

\* the roundings the arithmetic of one call can make: none when every term
\* of weighted_sum is 0 (0 / x is exact) or when no division is made
Roundings(sigs, wts) ==
    IF \/ TotalConfidence(sigs, wts) <= 0
       \/ \A k \in DOMAIN sigs :
              signal_values[sigs[k]["signal"]] * wts[k] * sigs[k]["confidence"] = 0
    THEN {0}
    ELSE {-1, 0, 1}

\* final_score with the division made whatever total_confidence is; den 0
\* stands for the ZeroDivisionError
FinalScore_NoGuard(weighted_sum, total_confidence, rounding) ==
    IF total_confidence = 0
    THEN [num |-> 0, den |-> 0, ulp |-> 0]
    ELSE [num |-> weighted_sum, den |-> total_confidence, ulp |-> rounding]

\* lines 402-405
FinalScore(weighted_sum, total_confidence, rounding) ==
    IF total_confidence > 0
    THEN [num |-> weighted_sum, den |-> total_confidence, ulp |-> rounding]
    ELSE [num |-> 0, den |-> 1, ulp |-> 0]

\* the direction with the thresholds included
Direction_Inclusive(score) ==
    IF 5 * score.num >= score.den THEN "bullish"
    ELSE IF 5 * score.num <= -score.den THEN "bearish"
    ELSE "neutral"

\* lines 408-413: final_score > 0.2, final_score < -0.2, else
Direction(score) ==
    IF 5 * score.num > score.den \/ (5 * score.num = score.den /\ score.ulp > 0)
    THEN "bullish"
    ELSE IF \/ 5 * score.num < -score.den
            \/ (5 * score.num = -score.den /\ score.ulp < 0)
    THEN "bearish"
    ELSE "neutral"

\* abs(final_score)
AbsScore(score) ==
    IF score.num < 0 THEN [num |-> -score.num, den |-> score.den, ulp |-> -score.ulp]
    ELSE IF score.num = 0 /\ score.ulp < 0
    THEN [num |-> 0, den |-> score.den, ulp |-> -score.ulp]
    ELSE score

\* the returned dict {"signal": signal, "confidence": abs(final_score)}
weighted_signal_combination(sigs, wts, rounding) ==
    LET score == FinalScore(WeightedSum(sigs, wts), TotalConfidence(sigs, wts), rounding)
    IN  [signal |-> Direction(score), confidence |-> AbsScore(score)]

\* the inputs of a call
ConfidenceLevels == {0, 50, 100}
Directions == {"bullish", "neutral", "bearish"}
StrategySignals == [signal : Directions, confidence : ConfidenceLevels]
WeightMaps == {strategy_weights, [k \in Strategies |-> 20]}

\* nothing but weighted_signal_combination is running
CombinerOnly ==
    /\ current_prices = EmptyDict
    /\ max_shares = EmptyDict
    /\ portfolio = EmptyDict
    /\ ReconcilerIdle
    /\ SolverIdle
    /\ TechnicalsIdle
    /\ ServicesIdle

CombinerInit ==
    /\ signals \in [Strategies -> StrategySignals]
    /\ weights \in WeightMaps
    /\ final_score = EmptyDict
    /\ combined = EmptyDict
    /\ pc = "combiner_start"
    /\ CombinerOnly

\* lines 383-415: the whole call; it ends in combiner_raised when the
\* division raises
CombinerCall ==
    /\ pc = "combiner_start"
    /\ \E rounding \in Roundings(signals, weights) :
           /\ final_score' = FinalScore(WeightedSum(signals, weights),
                                        TotalConfidence(signals, weights), rounding)
           /\ combined' = IF final_score'.den = 0 THEN EmptyDict
                          ELSE weighted_signal_combination(signals, weights, rounding)
    /\ pc' = IF final_score'.den = 0 THEN "combiner_raised" ELSE "combiner_done"
    /\ UNCHANGED <<signals, weights, inputs, reconciler, solver, technicals, services>>

CombinerNext == CombinerCall

CombinerSpec == CombinerInit /\ [][CombinerNext]_vars

Combined == pc = "combiner_done"

\* every confidence of the call is zero
AllZeroConfidence == \A k \in DOMAIN signals : signals[k]["confidence"] = 0

\* C17: with all confidences zero the call does not raise and returns
\* final_score 0, direction neutral and confidence 0.
C17_AllZeroConfidenceNeutral ==
    (pc \in {"combiner_done", "combiner_raised"} /\ AllZeroConfidence) =>
        /\ pc = "combiner_done"
        /\ final_score.num = 0 /\ final_score.ulp = 0 /\ final_score.den # 0
        /\ combined["signal"] = "neutral"
        /\ combined["confidence"].num = 0 /\ combined["confidence"].ulp = 0

\* C17 witness: a call with zero confidences on signals that are not all
\* neutral has returned.
C17_Witness ==
    /\ Combined
    /\ AllZeroConfidence
    /\ \E k, l \in DOMAIN signals :
           signals[k]["signal"] = "bullish" /\ signals[l]["signal"] = "bearish"
    /\ combined["signal"] = "neutral"

\* C18: the direction is bullish exactly when final_score > 0.2, bearish
\* exactly when final_score < -0.2 and neutral otherwise, so too at exactly
\* 0.2 and -0.2; the confidence is |final_score|; final_score is
\* weighted_sum / total_confidence as the arithmetic rounds it; and five
\* neutral signals of confidence 0.5 give neutral with confidence 0.
C18_DirectionByThreshold ==
    Combined =>
        LET ws    == WeightedSum(signals, weights)
            tc    == TotalConfidence(signals, weights)
            above == \/ 5 * final_score.num > final_score.den
                     \/ (5 * final_score.num = final_score.den /\ final_score.ulp > 0)
            below == \/ 5 * final_score.num < -final_score.den
                     \/ (5 * final_score.num = -final_score.den /\ final_score.ulp < 0)
            neg   == final_score.num < 0 \/ (final_score.num = 0 /\ final_score.ulp < 0)
        IN  /\ tc > 0 => (final_score.num = ws /\ final_score.den = tc)
            /\ final_score.ulp \in {-1, 0, 1}
            /\ combined["signal"] = "bullish" <=> above
            /\ combined["signal"] = "bearish" <=> below
            /\ combined["signal"] = "neutral" <=> (~above /\ ~below)
            /\ combined["confidence"].den = final_score.den
            /\ combined["confidence"].num =
                   IF final_score.num < 0 THEN -final_score.num ELSE final_score.num
            /\ combined["confidence"].ulp =
                   IF neg THEN -final_score.ulp ELSE final_score.ulp
            /\ (\A k \in DOMAIN signals :
                    signals[k] = [signal |-> "neutral", confidence |-> 50])
                   => /\ combined["signal"] = "neutral"
                      /\ combined["confidence"].num = 0
                      /\ combined["confidence"].ulp = 0

\* C18 witness: a call whose final_score came out at exactly 0.2 has
\* returned neutral with confidence 0.2.
C18_Witness ==
    /\ Combined
    /\ final_score.num > 0
    /\ 5 * final_score.num = final_score.den
    /\ final_score.ulp = 0
    /\ combined["signal"] = "neutral"
    /\ 5 * combined["confidence"].num = combined["confidence"].den

\* ---------------------------------------------------------------------
\* technicals.py: the five strategy generators, from the values their
\* decisions read at the latest bar
\* ---------------------------------------------------------------------

\* a float read with .iloc[-1]: nan says it is NaN, v is its value in
\* hundredths
NaN == [nan |-> TRUE, v |-> 0]
Num(x) == [nan |-> FALSE, v |-> x]

\* a < bound and a > bound on floats: False when a is NaN
Less(a, bound) == ~a.nan /\ a.v < bound
Greater(a, bound) == ~a.nan /\ a.v > bound

Abs(x) == IF x < 0 THEN -x ELSE x

\* a > b on two floats: False when either is NaN
GreaterThan(a, b) == ~a.nan /\ ~b.nan /\ a.v > b.v

\* adx / 100.0 in hundredths: ADX is kept in points
TrendStrength(adx) == IF adx.nan THEN NaN ELSE Num(adx.v)

\* calculate_trend_signals with >= for the two EMA comparisons
calculate_trend_signals_EqualCountsAsUp(ind) ==
    LET short_trend    == ind.ema_8.v >= ind.ema_21.v
        medium_trend   == ind.ema_21.v >= ind.ema_55.v
        trend_strength == TrendStrength(ind.adx)
    IN  IF short_trend /\ medium_trend
        THEN [signal |-> "bullish", confidence |-> trend_strength]
        ELSE IF ~short_trend /\ ~medium_trend
        THEN [signal |-> "bearish", confidence |-> trend_strength]
        ELSE [signal |-> "neutral", confidence |-> Num(50)]

\* lines 171-207
calculate_trend_signals(ind) ==
    LET short_trend    == GreaterThan(ind.ema_8, ind.ema_21)
        medium_trend   == GreaterThan(ind.ema_21, ind.ema_55)
        trend_strength == TrendStrength(ind.adx)
    IN  IF short_trend /\ medium_trend
        THEN [signal |-> "bullish", confidence |-> trend_strength]
        ELSE IF ~short_trend /\ ~medium_trend
        THEN [signal |-> "bearish", confidence |-> trend_strength]
        ELSE [signal |-> "neutral", confidence |-> Num(50)]

\* lines 210-249
calculate_mean_reversion_signals(ind) ==
    IF Less(ind.z_score, -200) /\ Less(ind.price_vs_bb, 20)
    THEN [signal |-> "bullish",
          confidence |-> Num(Min(Abs(ind.z_score.v) \div 4, 100))]
    ELSE IF Greater(ind.z_score, 200) /\ Greater(ind.price_vs_bb, 80)
    THEN [signal |-> "bearish",
          confidence |-> Num(Min(Abs(ind.z_score.v) \div 4, 100))]
    ELSE [signal |-> "neutral", confidence |-> Num(50)]

\* lines 252-294
calculate_momentum_signals(ind) ==
    IF Greater(ind.momentum_score, 5) /\ ind.volume_confirmation
    THEN [signal |-> "bullish",
          confidence |-> Num(Min(Abs(ind.momentum_score.v) * 5, 100))]
    ELSE IF Less(ind.momentum_score, -5) /\ ind.volume_confirmation
    THEN [signal |-> "bearish",
          confidence |-> Num(Min(Abs(ind.momentum_score.v) * 5, 100))]
    ELSE [signal |-> "neutral", confidence |-> Num(50)]

\* lines 297-341
calculate_volatility_signals(ind) ==
    IF Less(ind.current_vol_regime, 80) /\ Less(ind.vol_z, -100)
    THEN [signal |-> "bullish",
          confidence |-> Num(Min(Abs(ind.vol_z.v) \div 3, 100))]
    ELSE IF Greater(ind.current_vol_regime, 120) /\ Greater(ind.vol_z, 100)
    THEN [signal |-> "bearish",
          confidence |-> Num(Min(Abs(ind.vol_z.v) \div 3, 100))]
    ELSE [signal |-> "neutral", confidence |-> Num(50)]

\* lines 344-380: confidence = (0.5 - hurst) * 2, not clamped
calculate_stat_arb_signals(ind) ==
    IF Less(ind.hurst, 40) /\ Greater(ind.skew, 100)
    THEN [signal |-> "bullish", confidence |-> Num((50 - ind.hurst.v) * 2)]
    ELSE IF Less(ind.hurst, 40) /\ Less(ind.skew, -100)
    THEN [signal |-> "bearish", confidence |-> Num((50 - ind.hurst.v) * 2)]
    ELSE [signal |-> "neutral", confidence |-> Num(50)]

\* d[k] = val of a dict
Put(d, k, val) == [x \in DOMAIN d \cup {k} |-> IF x = k THEN val ELSE d[x]]

\* EMA(8), EMA(21) and EMA(55) of the close at the latest bar, in whole
\* units; on a one-bar frame the three are equal
Ema8Values == {Num(100), Num(101), Num(102)}
Ema21Values == {Num(101)}
Ema55Values == {Num(100), Num(101), Num(102)}
\* ADX(14) at the latest bar, in points: an average of dx values, which lie
\* in 0..100, or NaN when every dx is 0/0 (a one-bar frame)
AdxValues == {NaN, Num(40), Num(100)}
\* z-score of the close against its 50-bar mean; NaN below 50 bars
ZScores == {NaN, Num(-300), Num(500)}
BollingerPositions == {Num(10), Num(90)}
\* 0.4/0.3/0.3 sum of the 21/63/126-bar returns; NaN below 127 bars
MomentumScores == {NaN, Num(10), Num(-30)}
VolRegimes == {Num(50), Num(150)}
VolZScores == {NaN, Num(-150), Num(600)}
\* regression slopes calculate_hurst_exponent returns; a falling log-log
\* line gives a negative one
HurstValues == {Num(-10), Num(0), Num(30), Num(50)}
\* 63-bar skewness of the returns; NaN below 64 bars
Skews == {NaN, Num(-150), Num(150)}

Indicators ==
    [ema_8 : Ema8Values, ema_21 : Ema21Values, ema_55 : Ema55Values,
     adx : AdxValues,
     z_score : ZScores, price_vs_bb : BollingerPositions,
     momentum_score : MomentumScores, volume_confirmation : BOOLEAN,
     current_vol_regime : VolRegimes, vol_z : VolZScores,
     hurst : HurstValues, skew : Skews]

\* tools/api.py prices_to_df: the columns of the frame it returns
LoadedColumns == {"open", "close", "high", "low", "volume", "time"}
LoadedFrame == [c \in LoadedColumns |-> "prices_to_df"]

\* lines 475-492: the columns calculate_adx assigns in the frame passed in
AdxColumns ==
    {"high_low", "high_close", "low_close", "tr", "up_move", "down_move",
     "plus_dm", "minus_dm", "+di", "-di", "dx", "adx"}

\* df[c] = ... for every c of columns, by writer
Assign(df, columns, writer) ==
    [c \in DOMAIN df \cup columns |-> IF c \in columns THEN writer ELSE df[c]]

\* calculate_adx that smooths the high column in place as well
calculate_adx_OverwritesHigh(df) ==
    Assign(df, AdxColumns \cup {"high"}, "calculate_adx")

\* lines 464-496: what calculate_adx leaves in the frame passed in
calculate_adx(df) == Assign(df, AdxColumns, "calculate_adx")

\* the loaded columns each generator, and the indicator functions it calls,
\* read from prices_df: calculate_ema and calculate_adx (close, high, low);
\* rolling statistics, Bollinger bands and RSI (close); returns and volume
\* ratio (close, volume); returns and calculate_atr (close, high, low);
\* returns and calculate_hurst_exponent (close)
ColumnsRead ==
    [trend          |-> {"close", "high", "low"},
     mean_reversion |-> {"close"},
     momentum       |-> {"close", "volume"},
     volatility     |-> {"close", "high", "low"},
     stat_arb       |-> {"close"}]

\* the columns strategy k reads, as they are in df
Seen(k, df) == [c \in ColumnsRead[k] |-> df[c]]

\* only the strategy generators run
StrategistOnly ==
    /\ current_prices = EmptyDict
    /\ max_shares = EmptyDict
    /\ portfolio = EmptyDict
    /\ ReconcilerIdle
    /\ SolverIdle
    /\ CombinerIdle
    /\ RegressionIdle
    /\ ServicesIdle

\* technical_analyst_agent line 69: the frame of one ticker is ready
StrategyInit ==
    /\ indicators \in Indicators
    /\ strategy_signals = EmptyDict
    /\ frame = LoadedFrame
    /\ reads = EmptyDict
    /\ pc = "trend"
    /\ StrategistOnly

\* technical_analyst_agent line 72
TrendSignals ==
    /\ pc = "trend"
    /\ strategy_signals' =
           Put(strategy_signals, "trend", calculate_trend_signals(indicators))
    /\ reads' = Put(reads, "trend", Seen("trend", frame))
    /\ frame' = calculate_adx(frame)
    /\ pc' = "mean_reversion"
    /\ UNCHANGED <<indicators, inputs, reconciler, solver, combiner, regression, services>>

\* technical_analyst_agent line 75
MeanReversionSignals ==
    /\ pc = "mean_reversion"
    /\ strategy_signals' =
           Put(strategy_signals, "mean_reversion",
               calculate_mean_reversion_signals(indicators))
    /\ reads' = Put(reads, "mean_reversion", Seen("mean_reversion", frame))
    /\ frame' = frame
    /\ pc' = "momentum"
    /\ UNCHANGED <<indicators, inputs, reconciler, solver, combiner, regression, services>>

\* technical_analyst_agent line 78
MomentumSignals ==
    /\ pc = "momentum"
    /\ strategy_signals' =
           Put(strategy_signals, "momentum", calculate_momentum_signals(indicators))
    /\ reads' = Put(reads, "momentum", Seen("momentum", frame))
    /\ frame' = frame
    /\ pc' = "volatility"
    /\ UNCHANGED <<indicators, inputs, reconciler, solver, combiner, regression, services>>

\* technical_analyst_agent line 81
VolatilitySignals ==
    /\ pc = "volatility"
    /\ strategy_signals' =
           Put(strategy_signals, "volatility",
               calculate_volatility_signals(indicators))
    /\ reads' = Put(reads, "volatility", Seen("volatility", frame))
    /\ frame' = frame
    /\ pc' = "stat_arb"
    /\ UNCHANGED <<indicators, inputs, reconciler, solver, combiner, regression, services>>

\* technical_analyst_agent line 84
StatArbSignals ==
    /\ pc = "stat_arb"
    /\ strategy_signals' =
           Put(strategy_signals, "stat_arb", calculate_stat_arb_signals(indicators))
    /\ reads' = Put(reads, "stat_arb", Seen("stat_arb", frame))
    /\ frame' = frame
    /\ pc' = "strategies_done"
    /\ UNCHANGED <<indicators, inputs, reconciler, solver, combiner, regression, services>>

StrategyNext ==
    \/ TrendSignals
    \/ MeanReversionSignals
    \/ MomentumSignals
    \/ VolatilitySignals
    \/ StatArbSignals

StrategySpec == StrategyInit /\ [][StrategyNext]_vars

\* a confidence that is a number in [0, 1]
InUnitInterval(confidence) ==
    /\ ~confidence.nan
    /\ 0 <= confidence.v
    /\ confidence.v <= 100

\* C19: every strategy generator returns a confidence in [0,1] for every
\* input; the statistical-arbitrage confidence (0.5 - hurst) * 2 stays in
\* [0,1] for every Hurst value below 0.4, negative ones included.
C19_ConfidenceInUnitInterval ==
    \A k \in DOMAIN strategy_signals :
        InUnitInterval(strategy_signals[k]["confidence"])

\* ---------------------------------------------------------------------
\* technicals.py: calculate_hurst_exponent
\* ---------------------------------------------------------------------

\* longest price series drawn
MaxBars == 5

\* line 518: max_lag: int = 20
max_lag == 20

\* line 532: lags = range(2, max_lag)
lags == 2..(max_lag - 1)

\* 100 * ln(k), rounded, for k = 1..40: np.log on the lags and on the
\* variances that occur
LnCenti ==
    <<0, 69, 110, 139, 161, 179, 195, 208, 220, 230,
      240, 248, 256, 264, 271, 277, 283, 289, 294, 300,
      304, 309, 314, 318, 322, 326, 330, 333, 337, 340,
      343, 347, 350, 353, 356, 358, 361, 364, 366, 369>>

\* 4 * 100 * ln(1e-8), rounded: the floor of line 534 on the scale of LogTau
LogEpsilon == -7368

RECURSIVE SeqSum(_)
SeqSum(xs) == IF xs = <<>> THEN 0 ELSE Head(xs) + SeqSum(Tail(xs))

\* np.subtract(price_series[lag:], price_series[:-lag]), the defined values:
\* two arrays subtract position by position; two labelled Series are
\* aligned on their labels first, so that each close is subtracted from
\* itself where the two slices overlap and the rest is NaN, which np.std
\* skips
LaggedDifferences(series, lag, is_labelled) ==
    IF is_labelled
    THEN [i \in 1..Max(0, Len(series) - 2 * lag) |->
              series[lag + i] - series[lag + i]]
    ELSE [i \in 1..Max(0, Len(series) - lag) |->
              series[lag + i] - series[i]]

\* 400 * ln(max(1e-8, sqrt(std(diffs)))): std(diffs)^2 is N / n^2 with
\* N = n * sum(d^2) - sum(d)^2; an empty diffs has std NaN and max keeps
\* 1e-8
LogTau(diffs) ==
    LET n == Len(diffs)
        N == n * SeqSum([i \in 1..n |-> diffs[i] * diffs[i]])
                 - SeqSum(diffs) * SeqSum(diffs)
    IN  IF n = 0 \/ N = 0 THEN LogEpsilon
        ELSE Max(LogEpsilon, LnCenti[N] - 2 * LnCenti[n])

\* np.polyfit(x, y, 1)[0]: the least-squares slope
\* (n * sum(xy) - sum(x) * sum(y)) / (n * sum(x^2) - sum(x)^2), as the
\* floating-point solver rounds it
Polyfit(x, y, rounding) ==
    LET n   == Cardinality(DOMAIN x)
        sx  == SumOver(DOMAIN x, x)
        sy  == SumOver(DOMAIN x, y)
        sxy == SumOver(DOMAIN x, [k \in DOMAIN x |-> x[k] * y[k]])
        sxx == SumOver(DOMAIN x, [k \in DOMAIN x |-> x[k] * x[k]])
    IN  [num |-> n * sxy - sx * sy, den |-> n * sxx - sx * sx, ulp |-> rounding]

\* lines 518-542.  np.polyfit raises only for empty or non-finite x and y;
\* the 18 lags and the 18 tau values, each at least 1e-8, are finite, so
\* the except branch of lines 540-542 is never taken and the slope is
\* returned.  LogTau is 4 * 100 * ln(tau) and LnCenti is 100 * ln(lag),
\* hence the 4 in the denominator.
calculate_hurst_exponent(series, is_labelled, rounding) ==
    LET x   == [lag \in lags |-> LnCenti[lag]]
        y   == [lag \in lags |-> LogTau(LaggedDifferences(series, lag, is_labelled))]
        reg == Polyfit(x, y, rounding)
    IN  [num |-> reg.num, den |-> 4 * reg.den, ulp |-> reg.ulp]

SeriesPrices == {100, 101}
PriceSeries == UNION {[1..n -> SeriesPrices] : n \in 1..MaxBars}

\* only calculate_hurst_exponent runs
RegressionOnly ==
    /\ current_prices = EmptyDict
    /\ max_shares = EmptyDict
    /\ portfolio = EmptyDict
    /\ ReconcilerIdle
    /\ SolverIdle
    /\ CombinerIdle
    /\ StrategistIdle
    /\ ServicesIdle

HurstInit ==
    /\ price_series \in PriceSeries
    /\ labelled \in BOOLEAN
    /\ hurst = EmptyDict
    /\ pc = "hurst_start"
    /\ RegressionOnly

\* lines 518-542: the whole call
HurstCall ==
    /\ pc = "hurst_start"
    /\ \E rounding \in {-1, 0, 1} :
           hurst' = calculate_hurst_exponent(price_series, labelled, rounding)
    /\ pc' = "hurst_done"
    /\ UNCHANGED <<price_series, labelled, inputs, reconciler, solver, combiner,
                   strategist, services>>

HurstNext == HurstCall

HurstSpec == HurstInit /\ [][HurstNext]_vars

\* every close of the series is the same
ConstantSeries(series) == \A i, j \in 1..Len(series) : series[i] = series[j]

\* C20: calculate_hurst_exponent on a constant price series returns
\* exactly 0.5.
C20_ConstantSeriesReturnsHalf ==
    (pc = "hurst_done" /\ ConstantSeries(price_series)) =>
        /\ 2 * hurst.num = hurst.den
        /\ hurst.ulp = 0

\* ---------------------------------------------------------------------
\* properties of the strategy generators
\* ---------------------------------------------------------------------

\* calculate_trend_signals has returned
TrendReturned == "trend" \in DOMAIN strategy_signals

\* C21: calculate_trend_signals returns bullish with confidence ADX/100
\* when EMA8 > EMA21 and EMA21 > EMA55 at the latest bar, bearish with
\* confidence ADX/100 when both comparisons are false, neutral with
\* confidence 0.5 when they disagree; EMA8 > EMA21 > EMA55 with ADX = 40
\* gives bullish with confidence 0.40.
C21_TrendByEmaOrder ==
    TrendReturned =>
        LET up8   == indicators.ema_8.v > indicators.ema_21.v
            up21  == indicators.ema_21.v > indicators.ema_55.v
            trend == strategy_signals["trend"]
            adx   == indicators.adx
        IN  /\ (up8 /\ up21) =>
                   /\ trend["signal"] = "bullish"
                   /\ trend["confidence"] = [nan |-> adx.nan, v |-> adx.v]
            /\ (~up8 /\ ~up21) =>
                   /\ trend["signal"] = "bearish"
                   /\ trend["confidence"] = [nan |-> adx.nan, v |-> adx.v]
            /\ (up8 # up21) =>
                   /\ trend["signal"] = "neutral"
                   /\ trend["confidence"] = Num(50)
            /\ (up8 /\ up21 /\ adx = Num(40)) =>
                   trend = [signal |-> "bullish", confidence |-> Num(40)]

\* C21 witness: Scenario A has been computed
C21_Witness ==
    /\ TrendReturned
    /\ indicators.ema_8 = Num(102)
    /\ indicators.ema_21 = Num(101)
    /\ indicators.ema_55 = Num(100)
    /\ indicators.adx = Num(40)
    /\ strategy_signals["trend"] = [signal |-> "bullish", confidence |-> Num(40)]

\* the latest-bar values each generator's direction and confidence read
DecisionInputs ==
    [trend          |-> {"ema_8", "ema_21", "ema_55", "adx"},
     mean_reversion |-> {"z_score", "price_vs_bb"},
     momentum       |-> {"momentum_score"},
     volatility     |-> {"current_vol_regime", "vol_z"},
     stat_arb       |-> {"hurst", "skew"}]

\* a value the decision of strategy k reads is NaN
ReadsUndefined(k) == \E f \in DecisionInputs[k] : indicators[f].nan

\* C22: a strategy generator whose decision reads an undefined value at the
\* latest bar returns neutral with confidence 0.5, never bullish or bearish
\* and never an undefined confidence.
C22_UndefinedForcesNeutral ==
    \A k \in DOMAIN strategy_signals :
        ReadsUndefined(k) =>
            strategy_signals[k] = [signal |-> "neutral", confidence |-> Num(50)]

\* C23: the strategy generators and the indicator functions they call are
\* side-effect free: after a generator returns, the frame passed in has the
\* columns and values it had before the call.
C23_FrameUnchanged ==
    DOMAIN strategy_signals # {} => frame = LoadedFrame

\* ---------------------------------------------------------------------
\* the five generators on one frame, in any order and interleaved
\* ---------------------------------------------------------------------

\* the generator of strategy k
Generator(k, ind) ==
    CASE k = "trend"          -> calculate_trend_signals(ind)
      [] k = "mean_reversion" -> calculate_mean_reversion_signals(ind)
      [] k = "momentum"       -> calculate_momentum_signals(ind)
      [] k = "volatility"     -> calculate_volatility_signals(ind)
      [] k = "stat_arb"       -> calculate_stat_arb_signals(ind)

AnyOrderIndicators ==
    [ema_8 : Ema8Values, ema_21 : Ema21Values, ema_55 : {Num(100)},
     adx : AdxValues,
     z_score : {Num(-300)}, price_vs_bb : {Num(10)},
     momentum_score : {Num(10)}, volume_confirmation : {TRUE},
     current_vol_regime : {Num(50)}, vol_z : {Num(-150)},
     hurst : {Num(30)}, skew : Skews]

\* the latest-bar values strategy k computes from the columns it saw: those of
\* the loaded frame, or any values at all once a column it reads was rewritten
IndicatorsFrom(k, seen) ==
    IF seen = Seen(k, LoadedFrame) THEN {indicators} ELSE AnyOrderIndicators

AnyOrderInit ==
    /\ indicators \in AnyOrderIndicators
    /\ strategy_signals = EmptyDict
    /\ frame = LoadedFrame
    /\ reads = EmptyDict
    /\ pc = "any_order"
    /\ StrategistOnly

\* calculate_trend_signals lines 176-181: the EMAs are read, then
\* calculate_adx reads and writes the frame
TrendIndicators ==
    /\ pc = "any_order"
    /\ "trend" \notin DOMAIN reads
    /\ reads' = Put(reads, "trend", Seen("trend", frame))
    /\ frame' = calculate_adx(frame)
    /\ UNCHANGED <<pc, indicators, strategy_signals, inputs, reconciler, solver,
                   combiner, regression, services>>

\* calculate_trend_signals lines 183-207
TrendDecision ==
    /\ pc = "any_order"
    /\ "trend" \in DOMAIN reads
    /\ "trend" \notin DOMAIN strategy_signals
    /\ \E ind \in IndicatorsFrom("trend", reads["trend"]) :
           strategy_signals' = Put(strategy_signals, "trend", Generator("trend", ind))
    /\ UNCHANGED <<pc, indicators, frame, reads, inputs, reconciler, solver,
                   combiner, regression, services>>

\* one of the other four generators, start to end
OtherGenerator(k) ==
    /\ pc = "any_order"
    /\ k \notin DOMAIN strategy_signals
    /\ reads' = Put(reads, k, Seen(k, frame))
    /\ \E ind \in IndicatorsFrom(k, Seen(k, frame)) :
           strategy_signals' = Put(strategy_signals, k, Generator(k, ind))
    /\ UNCHANGED <<pc, indicators, frame, inputs, reconciler, solver, combiner,
                   regression, services>>

AnyOrderNext ==
    \/ TrendIndicators
    \/ TrendDecision
    \/ \E k \in Strategies \ {"trend"} : OtherGenerator(k)

AnyOrderSpec == AnyOrderInit /\ [][AnyOrderNext]_vars

\* C24: in every order and interleaving each generator reads only columns
\* as prices_to_df loaded them, none that another generator or
\* calculate_adx wrote, and returns the signal it returns when run alone
\* on the loaded frame.
C24_OrderIndependent ==
    \A k \in DOMAIN strategy_signals :
        /\ reads[k] = Seen(k, LoadedFrame)
        /\ strategy_signals[k] = Generator(k, indicators)

\* C24 witness: volatility has run after calculate_adx wrote its columns
\* and before the trend generator decided, stat_arb has run too and mean
\* reversion has not
C24_Witness ==
    /\ pc = "any_order"
    /\ "adx" \in DOMAIN frame
    /\ "trend" \notin DOMAIN strategy_signals
    /\ {"volatility", "stat_arb"} \subseteq DOMAIN strategy_signals
    /\ "mean_reversion" \notin DOMAIN strategy_signals
    /\ reads["volatility"] = Seen("volatility", LoadedFrame)

\* ---------------------------------------------------------------------
\* technicals.py: technical_analyst_agent, the loop over the tickers
\* ---------------------------------------------------------------------

\* lines 71-84: the five signals of one frame
StrategySignalsOf(ind) == [k \in Strategies |-> Generator(k, ind)]

\* the dict of lines 96-103, confidences in hundredths
CombinerInput(sigs) ==
    [k \in Strategies |->
        [signal |-> sigs[k]["signal"], confidence |-> sigs[k]["confidence"].v]]

\* round(confidence * 100) of a non-negative fraction num/den that the
\* arithmetic rounded by ulp: to the nearest integer, a tie to the even one
Round100(c) ==
    LET q == (100 * c.num) \div c.den
        r == (100 * c.num) % c.den
    IN  IF 2 * r > c.den THEN q + 1
        ELSE IF 2 * r < c.den THEN q
        ELSE IF c.ulp > 0 THEN q + 1
        ELSE IF c.ulp < 0 THEN q
        ELSE IF q % 2 = 0 THEN q ELSE q + 1

\* lines 143-147: the entry of a ticker that has prices
AnalysisEntry(ind, rounding) ==
    LET combined_signal ==
            weighted_signal_combination(CombinerInput(StrategySignalsOf(ind)),
                                        strategy_weights, rounding)
    IN  [signal     |-> combined_signal["signal"],
         confidence |-> Round100(combined_signal["confidence"]),
         reasoning  |-> "reasoning_text"]

AnalystTickerLists == {<<"AAPL">>, <<"AAPL", "MSFT">>, <<"MSFT", "AAPL">>}

\* latest-bar values of frames long enough for ADX to be defined
AnalystIndicators ==
    [ema_8 : {Num(100), Num(102)}, ema_21 : Ema21Values, ema_55 : {Num(100)},
     adx : {Num(40)},
     z_score : {Num(-300)}, price_vs_bb : {Num(10)},
     momentum_score : {Num(10)}, volume_confirmation : {TRUE},
     current_vol_regime : {Num(50)}, vol_z : {Num(-150)},
     hurst : {Num(-10), Num(30)}, skew : {NaN, Num(150)}]

\* only technical_analyst_agent runs
AnalystOnly ==
    /\ current_prices = EmptyDict
    /\ max_shares = EmptyDict
    /\ portfolio = EmptyDict
    /\ ReconcilerIdle
    /\ SolverIdle
    /\ CombinerIdle
    /\ TechnicalsIdle
    /\ ApiIdle

\* lines 43-51
AnalystInit ==
    /\ analyst_tickers \in AnalystTickerLists
    /\ price_data \in UNION {[S -> AnalystIndicators] : S \in SUBSET Range(analyst_tickers)}
    /\ technical_analysis = EmptyDict
    /\ ticker_pos = 1
    /\ pc = "analyst_loop"
    /\ AnalystOnly

\* lines 53-66: get_prices returned nothing, continue
NoPriceData ==
    /\ pc = "analyst_loop"
    /\ ticker_pos <= Len(analyst_tickers)
    /\ analyst_tickers[ticker_pos] \notin DOMAIN price_data
    /\ ticker_pos' = ticker_pos + 1
    /\ UNCHANGED <<pc, analyst_tickers, price_data, technical_analysis, inputs,
                   reconciler, solver, combiner, technicals, api>>

\* lines 53-148: the body of the loop for a ticker with prices
AnalyzeTicker ==
    /\ pc = "analyst_loop"
    /\ ticker_pos <= Len(analyst_tickers)
    /\ analyst_tickers[ticker_pos] \in DOMAIN price_data
    /\ LET ticker == analyst_tickers[ticker_pos]
           sigs   == CombinerInput(StrategySignalsOf(price_data[ticker]))
       IN  \E rounding \in Roundings(sigs, strategy_weights) :
               technical_analysis' =
                   Put(technical_analysis, ticker,
                       AnalysisEntry(price_data[ticker], rounding))
    /\ ticker_pos' = ticker_pos + 1
    /\ UNCHANGED <<pc, analyst_tickers, price_data, inputs, reconciler, solver,
                   combiner, technicals, api>>

\* lines 150-169: the loop is over
AnalystReturn ==
    /\ pc = "analyst_loop"
    /\ ticker_pos > Len(analyst_tickers)
    /\ pc' = "analyst_done"
    /\ UNCHANGED <<analyst, inputs, reconciler, solver, combiner, technicals, api>>

AnalystNext ==
    \/ NoPriceData
    \/ AnalyzeTicker
    \/ AnalystReturn

AnalystSpec == AnalystInit /\ [][AnalystNext]_vars

\* C25: when get_prices returns nothing for a ticker the output still has
\* an entry for it, with signal neutral, and the remaining tickers are
\* processed.
C25_NoPricesNeutralEntry ==
    pc = "analyst_done" =>
        \A t \in Range(analyst_tickers) :
            /\ t \in DOMAIN technical_analysis
            /\ t \notin DOMAIN price_data =>
                   technical_analysis[t]["signal"] = "neutral"

\* ---------------------------------------------------------------------
\* further properties of generate_trading_decision and call_llm
\* ---------------------------------------------------------------------

\* every attempt of call_llm failed: the model was invoked max_retries times
\* and llm_out is not an answer of the proposer (whose decisions carry its
\* own confidence and reasoning) but what default_factory built
GaveUp ==
    /\ llm_calls = max_retries
    /\ pc \in {"post_process", "done"}
    /\ llm_out \notin Answers

\* C26: when every attempt of the proposer call fails, call_llm invokes the
\* model at most max_retries times and raises nothing, and
\* generate_trading_decision returns the prefilled hold for each hold-only
\* ticker and {hold, 0, 0, "Default decision: hold"} for every other input
\* ticker.
C26_AllAttemptsFailDefaultHold ==
    /\ llm_calls <= max_retries
    /\ (GaveUp /\ Returned) =>
           /\ DOMAIN result = Range(InputTickers)
           /\ \A t \in DOMAIN result :
                  result[t] = IF OnlyHold(AllowedActionsFull[t])
                              THEN PortfolioDecision("hold", 0, 100, NoValidTrade)
                              ELSE PortfolioDecision("hold", 0, 0, DefaultHold)

\* C26 witness: the call has returned after three failed attempts, with one
\* ticker prefilled and the other defaulted, the latter with all-neutral
\* signals
C26_Witness ==
    /\ GaveUp
    /\ Returned
    /\ \E t, u \in Range(InputTickers) :
           /\ OnlyHold(AllowedActionsFull[t])
           /\ ~OnlyHold(AllowedActionsFull[u])
           /\ AllNeutral(signals_by_ticker[u])
           /\ result[t].confidence = 100
           /\ result[u].confidence = 0

\* ticker t has a bullish or bearish analyst signal, or no signal at all
DirectionalOrNoSignals(t) ==
    \/ DOMAIN signals_by_ticker[t] = {}
    \/ SignalCount(signals_by_ticker[t], "bullish") > 0
    \/ SignalCount(signals_by_ticker[t], "bearish") > 0

request_max_retries == 3

\* what one requests.get or requests.post ends in: a response with a status
\* code, or an exception
HttpStatuses == {200, 401, 402, 429, 500}
HttpErrors == {"Timeout", "ConnectionError", "RequestException"}
Outcomes ==
    {[status |-> c, error |-> "none"] : c \in HttpStatuses}
        \cup {[status |-> 0, error |-> e] : e \in HttpErrors}

Raised(outcome) == outcome.error # "none"
RateLimited(outcome) == ~Raised(outcome) /\ outcome.status = 429
ServerError(outcome) ==
    ~Raised(outcome) /\ 500 <= outcome.status /\ outcome.status < 600

\* _make_api_request that returns a 5xx response at once
Retries_NotOnServerError(outcome, attempt_no) ==
    /\ attempt_no < request_max_retries
    /\ (RateLimited(outcome) \/ Raised(outcome))

\* lines 213, 221, 232, 242, 252: the attempt is followed by another one;
\* retry_on_timeout and retry_on_connection_error keep their default True
Retries(outcome, attempt_no) ==
    /\ attempt_no < request_max_retries
    /\ (RateLimited(outcome) \/ ServerError(outcome) \/ Raised(outcome))

\* lines 215, 222, 233, 243, 253: the argument of time.sleep
Delay(outcome, attempt_no) ==
    IF RateLimited(outcome) THEN Min(2 ^ attempt_no, 60)
    ELSE Min(2 ^ attempt_no, 30)

\* _get_us_stock_api_key: (primary, backup), None for a missing key; the two
\* are never the same key
KeyPairs ==
    {<<"primary", "backup">>, <<"primary", "None">>,
     <<"None", "backup">>, <<"None", "None">>}

\* the fallback that moves on to the backup key after a 401 as well
MovesToNextKey_AlsoUnauthorized(outcome, attempt_key, primary_key, backup_key) ==
    IF Raised(outcome)
    THEN ~(attempt_key = backup_key \/ backup_key = "None")
    ELSE /\ outcome.status \in {401, 402}
         /\ backup_key # "None"
         /\ attempt_key = primary_key

\* lines 136-139 and 157-161: the loop over the keys continues with the
\* next key after this key's _make_api_request ended in outcome
MovesToNextKey(outcome, attempt_key, primary_key, backup_key) ==
    IF Raised(outcome)
    THEN ~(attempt_key = backup_key \/ backup_key = "None")
    ELSE /\ outcome.status = 402
         /\ backup_key # "None"
         /\ attempt_key = primary_key

\* only the API request runs
ApiOnly ==
    /\ current_prices = EmptyDict
    /\ max_shares = EmptyDict
    /\ portfolio = EmptyDict
    /\ ReconcilerIdle
    /\ SolverIdle
    /\ CombinerIdle
    /\ TechnicalsIdle
    /\ AnalystIdle

\* lines 119-122
ApiInit ==
    /\ api_keys \in KeyPairs
    /\ key_pos = 1
    /\ api_attempt = 0
    /\ requests_made = 0
    /\ delays = <<>>
    /\ response = NoResponse
    /\ key_outcomes = <<>>
    /\ last_error = "none"
    /\ api_result = "none"
    /\ pc = "next_key"
    /\ ApiOnly

\* lines 124-126: if attempt_key is None: continue
SkipMissingKey ==
    /\ pc = "next_key"
    /\ key_pos <= Len(api_keys)
    /\ api_keys[key_pos] = "None"
    /\ key_pos' = key_pos + 1
    /\ UNCHANGED <<pc, api_keys, api_attempt, requests_made, delays, response,
                   key_outcomes, last_error, api_result, inputs, reconciler,
                   solver, combiner, technicals, analyst>>

\* lines 128-133 and 203-205: _make_api_request is called with the key
StartRequest ==
    /\ pc = "next_key"
    /\ key_pos <= Len(api_keys)
    /\ api_keys[key_pos] # "None"
    /\ api_attempt' = 0
    /\ requests_made' = 0
    /\ delays' = <<>>
    /\ pc' = "request"
    /\ UNCHANGED <<api_keys, key_pos, response, key_outcomes, last_error,
                   api_result, inputs, reconciler, solver, combiner, technicals,
                   analyst>>

\* lines 205-258: an attempt that is followed by another: sleep and continue
AttemptRetried ==
    /\ pc = "request"
    /\ \E outcome \in Outcomes :
           /\ Retries(outcome, api_attempt)
           /\ response' = outcome
           /\ delays' = Append(delays,
                  [status |-> outcome.status, error |-> outcome.error,
                   seconds |-> Delay(outcome, api_attempt)])
    /\ requests_made' = requests_made + 1
    /\ api_attempt' = api_attempt + 1
    /\ UNCHANGED <<pc, api_keys, key_pos, key_outcomes, last_error, api_result,
                   inputs, reconciler, solver, combiner, technicals, analyst>>

\* lines 205-258 and 133-161: the attempt that ends _make_api_request, with a
\* returned response or a raised Exception, and what the loop over the keys
\* does with it
AttemptEnds ==
    /\ pc = "request"
    /\ \E outcome \in Outcomes :
           LET attempt_key == api_keys[key_pos]
               next_key    == MovesToNextKey(outcome, attempt_key,
                                             api_keys[1], api_keys[2])
           IN  /\ ~Retries(outcome, api_attempt)
               /\ response' = outcome
               /\ key_outcomes' = Append(key_outcomes,
                      [key |-> attempt_key, status |-> outcome.status,
                       error |-> outcome.error, requests |-> requests_made + 1])
               /\ last_error' =
                      IF ~next_key THEN last_error
                      ELSE IF Raised(outcome) THEN "Exception" ELSE "APIError"
               /\ key_pos' = IF next_key THEN key_pos + 1 ELSE key_pos
               /\ api_result' =
                      IF next_key THEN api_result
                      ELSE IF Raised(outcome) THEN "raised_APIError"
                      ELSE IF outcome.status = 200 THEN "returned"
                      ELSE "raised_APIError"
               /\ pc' = IF next_key THEN "next_key" ELSE "api_done"
    /\ requests_made' = requests_made + 1
    /\ UNCHANGED <<api_keys, api_attempt, delays, inputs, reconciler, solver,
                   combiner, technicals, analyst>>

\* lines 163-171: the loop over the keys is over
KeysExhausted ==
    /\ pc = "next_key"
    /\ key_pos > Len(api_keys)
    /\ api_result' =
           IF last_error # "none" THEN "raised_last_error"
           ELSE IF response = NoResponse THEN "raised_no_key"
           ELSE IF response.status = 200 THEN "returned"
           ELSE "raised_APIError"
    /\ pc' = "api_done"
    /\ UNCHANGED <<api_keys, key_pos, api_attempt, requests_made, delays,
                   response, key_outcomes, last_error, inputs, reconciler,
                   solver, combiner, technicals, analyst>>

ApiNext ==
    \/ SkipMissingKey
    \/ StartRequest
    \/ AttemptRetried
    \/ AttemptEnds
    \/ KeysExhausted

ApiSpec == ApiInit /\ [][ApiNext]_vars

\* a call of _make_api_request has ended and the next has not started:
\* requests_made, delays and response are those of the call that ended
RequestEnded == pc \in {"next_key", "api_done"} /\ key_outcomes # <<>>

\* C28: _make_api_request ends after at most max_retries + 1 HTTP requests;
\* it returns the first response that is neither 429 nor 5xx, returns the
\* last response when the final attempt is still 429 or 5xx, and raises
\* only when the final attempt ends in an exception.
C28_RequestTerminates ==
    /\ requests_made <= request_max_retries + 1
    /\ RequestEnded =>
           LET last == key_outcomes[Len(key_outcomes)]
           IN  /\ last.requests = requests_made
               /\ last.status = response.status
               /\ last.error = response.error
               /\ Len(delays) = requests_made - 1
               /\ \A i \in 1..Len(delays) :
                      \/ delays[i].status = 429
                      \/ (500 <= delays[i].status /\ delays[i].status < 600)
                      \/ delays[i].error # "none"
               /\ \/ /\ ~Raised(response)
                     /\ ~RateLimited(response)
                     /\ ~ServerError(response)
                  \/ requests_made = request_max_retries + 1

\* C28 witness: a call has returned the 429 of its fourth request, another
\* has raised on a timeout of its fourth request
C28_Witness ==
    /\ RequestEnded
    /\ requests_made = request_max_retries + 1
    /\ response.status = 429
    /\ Len(key_outcomes) = 2
    /\ key_outcomes[1].error = "Timeout"
    /\ key_outcomes[1].requests = request_max_retries + 1

\* C29: on successive 429 responses _make_api_request waits 2s, 4s and 8s
\* before its first, second and third retry (2^n capped at 60).
C29_RateLimitBackoff ==
    \A i \in 1..Len(delays) :
        (\A j \in 1..i : delays[j].status = 429) =>
            delays[i].seconds = Min(2 ^ i, 60)

\* the backup key has been sent in a request
BackupUsed ==
    \/ pc = "request" /\ api_keys[key_pos] = "backup"
    \/ \E i \in 1..Len(key_outcomes) : key_outcomes[i].key = "backup"

\* the primary key's _make_api_request has ended before the backup key was
\* used
PrimaryEndedFirst ==
    /\ key_outcomes # <<>>
    /\ key_outcomes[1].key = "primary"

====
